---- MODULE Spec2Model ----
(***************************************************************************)
(* Model of read_mykad.py: the MyKad card protocol driver (select          *)
(* application, declare length, select region, chunked read), the BCD      *)
(* field decoders and the record assembly done by main().                  *)
(*                                                                         *)
(* The smart-card transport (conn.transmit) is the environment: every      *)
(* response is a nondeterministic choice of status words and of a data     *)
(* length, the data bytes being those of a card image at the transport's   *)
(* stream position.                                                        *)
(***************************************************************************)
EXTENDS Integers, Sequences, FiniteSets, TLC

VARIABLES
    pc,         \* position of the program
    blk,        \* which block main() is reading: 1 (JPN 1/1), 2 (1/2), 3 (1/4)
    length,     \* read_info: the `length` argument
    remaining,  \* read_info: the loop variable `remaining`
    out,        \* read_info: the bytearray `out`
    ret,        \* value returned by the last completed read_info call
    fields,     \* main(): the values decoded so far
    stdout,     \* what the run has printed
    exitcode,   \* process exit status, NoExit while running
    error,      \* message of the uncaught exception, "" if none
    sent,       \* transport: every APDU handed to conn.transmit, in order
    last,       \* transport: the response to the last APDU
    cursor,     \* transport: bytes delivered since the last region select
    devs,       \* transport: responses whose data length was not the requested one
    exact,      \* transport: every read response of this read_info call was
                \* accepted and carried exactly the requested number of bytes
    call,       \* a function exercised on its own: its name and arguments
    result      \* what that call returned or raised

vars == <<pc, blk, length, remaining, out, ret, fields, stdout, exitcode,
          error, sent, last, cursor, devs, exact, call, result>>

-----------------------------------------------------------------------------
(* Bounds of the model. *)

\* transport responses per specification run whose data length deviates
MaxDevs == 1
\* declared lengths 0..MaxLen are tried when read_info is exercised on its own
MaxLen == 520
\* every payload of at most MaxPayload bytes is tried by transmit_apdu on its own
MaxPayload == 2
\* le_short on its own is tried on -ShortMargin .. 65535 + ShortMargin
ShortMargin == 300
\* the decoders on their own read their field at offsets 0..MaxOffset
MaxOffset == 1

-----------------------------------------------------------------------------
(* Program constants. *)

jpn1_1_len == 459
jpn1_2_len == 4011
jpn1_4_len == 171

\* 0xFF, the largest chunk read_info requests
MaxChunk == 255

NoExit == -1
\* encoding of Python's None for the `le` and `data` arguments
NoLe == -1
NoData == <<-1>>
\* no value has been returned by read_info
NoBlock == <<-1>>
\* main() runs: no function is exercised on its own
NoCall == [fn |-> "none"]
NoResult == [err |-> "none"]

Min(a, b) == IF a < b THEN a ELSE b

-----------------------------------------------------------------------------
(* Transport Frame Builder. *)

\* the length byte of the payload is left out
Apdu_NoLength(cla, ins, p1, p2, data, le) ==
    <<cla, ins, p1, p2>>
        \o (IF data # NoData THEN data ELSE <<>>)
        \o (IF le # NoLe THEN <<le>> ELSE <<>>)

\* an expected length of 0 is taken for an absent one
Apdu_FalsyLe(cla, ins, p1, p2, data, le) ==
    <<cla, ins, p1, p2>>
        \o (IF data # NoData THEN <<Len(data)>> \o data ELSE <<>>)
        \o (IF le # NoLe /\ le # 0 THEN <<le>> ELSE <<>>)

\* apdu = [cla, ins, p1, p2]; + [len(data)] + data; + [le]
Apdu(cla, ins, p1, p2, data, le) ==
    <<cla, ins, p1, p2>>
        \o (IF data # NoData THEN <<Len(data)>> \o data ELSE <<>>)
        \o (IF le # NoLe THEN <<le>> ELSE <<>>)

\* high byte first
le_short_BigEndian(x) == <<(x \div 256) % 256, x % 256>>

\* [x & 0xFF, (x >> 8) & 0xFF]
le_short(x) == <<x % 256, (x \div 256) % 256>>

AID == <<160, 0, 0, 0, 116, 74, 80, 78, 0, 16>>

SelectApplicationApdu == Apdu(0, 164, 4, 0, AID, 0)

\* the length of the first block is declared for every block
SetLengthApdu_Stale(len) == Apdu(200, 50, 0, 0, <<8, 0, 0>> \o le_short(jpn1_1_len), 0)

SetLengthApdu(len) == Apdu(200, 50, 0, 0, <<8, 0, 0>> \o le_short(len), 0)

SelectInfoApdu(filen1, filen2, offset, len) ==
    Apdu(204, 0, 0, 0,
         le_short(filen2) \o le_short(filen1) \o le_short(offset) \o le_short(len),
         0)

ReadInfoApdu(chunk) == Apdu(204, 6, 0, 0, NoData, chunk)

-----------------------------------------------------------------------------
(* Field Decoder.  Python indexes from 0, sequences here from 1. *)

\* data[a:b], clamped to the data as Python slices are
Slice(data, a, b) ==
    IF a >= Min(b, Len(data)) THEN <<>> ELSE SubSeq(data, a + 1, Min(b, Len(data)))

\* the low nibble taken for the tens
BcdByte_Swapped(b) == (b % 16) * 10 + ((b \div 16) % 16)

\* ((b >> 4) & 0xF) * 10 + (b & 0xF)
BcdByte(b) == ((b \div 16) % 16) * 10 + (b % 16)

IsLeap(y) == (y % 4 = 0) /\ ((y % 100 # 0) \/ (y % 400 = 0))

DaysInMonth(y, m) ==
    IF m = 2 THEN (IF IsLeap(y) THEN 29 ELSE 28)
    ELSE IF m \in {4, 6, 9, 11} THEN 30 ELSE 31

\* the length of the month is not looked at
ValidDate_AnyDay(y, m, d) ==
    /\ y >= 1 /\ y <= 9999
    /\ m >= 1 /\ m <= 12
    /\ d >= 1 /\ d <= 31

\* the dates datetime(year, month, day) accepts
ValidDate(y, m, d) ==
    /\ y >= 1 /\ y <= 9999
    /\ m >= 1 /\ m <= 12
    /\ d >= 1 /\ d <= DaysInMonth(y, m)

\* The result is a record: err is "" and (year, month, day) the date, or err
\* names the exception raised.
convert_bcd_date(data, offset) ==
    IF offset + 3 >= Len(data) THEN [err |-> "IndexError", year |-> 0, month |-> 0, day |-> 0]
    ELSE LET year  == BcdByte(data[offset + 1]) * 100 + BcdByte(data[offset + 2])
             month == BcdByte(data[offset + 3])
             day   == BcdByte(data[offset + 4])
         IN  IF ValidDate(year, month, day)
             THEN [err |-> "", year |-> year, month |-> month, day |-> day]
             ELSE [err |-> "ValueError", year |-> year, month |-> month, day |-> day]

\* the trailing digit is kept
convert_bcd_postcode_NoDiv(data, offset) ==
    IF offset + 2 >= Len(data) THEN [err |-> "IndexError", n |-> 0]
    ELSE [err |-> "",
          n |-> (BcdByte(data[offset + 1]) * 100 + BcdByte(data[offset + 2])) * 100
                    + BcdByte(data[offset + 3])]

convert_bcd_postcode(data, offset) ==
    IF offset + 2 >= Len(data) THEN [err |-> "IndexError", n |-> 0]
    ELSE [err |-> "",
          n |-> ((BcdByte(data[offset + 1]) * 100 + BcdByte(data[offset + 2])) * 100
                    + BcdByte(data[offset + 3])) \div 10]

\* the characters str.strip() removes: \t \n \v \f \r, 0x1C..0x1F and space
Whitespace == (9..13) \cup (28..32)

\* decode("ascii", errors="ignore"): bytes above 0x7F are dropped
AsciiIgnore(s) == SelectSeq(s, LAMBDA b : b < 128)

Strip(s) ==
    LET keep == {i \in 1..Len(s) : s[i] \notin Whitespace}
    IN  IF keep = {} THEN <<>>
        ELSE LET lo == CHOOSE i \in keep : \A j \in keep : i <= j
                 hi == CHOOSE i \in keep : \A j \in keep : j <= i
             IN  SubSeq(s, lo, hi)

parse_text(data, start, len) == Strip(AsciiIgnore(Slice(data, start, start + len)))

\* "Male" if data[286:287] decodes to "L" else "Female"
SexOf(data) == IF AsciiIgnore(Slice(data, 286, 287)) = <<76>> THEN "Male" ELSE "Female"

-----------------------------------------------------------------------------
(* Output formatting. *)

MonthAbbr == <<"Jan", "Feb", "Mar", "Apr", "May", "Jun",
               "Jul", "Aug", "Sep", "Oct", "Nov", "Dec">>

\* strftime("%d %b %Y")
Strftime(dt) == <<dt.day \div 10, dt.day % 10, MonthAbbr[dt.month], dt.year>>

RECURSIVE Str(_)
\* str(n) for n >= 0, as its decimal digits
Str(n) == IF n < 10 THEN <<n>> ELSE Str(n \div 10) \o <<n % 10>>

\* base64.b64encode: the 6-bit symbols of the encoding, 64 standing for "="
B64(bytes) ==
    LET n == Len(bytes)
        at(i) == IF i <= n THEN bytes[i] ELSE 0
        sym(i) ==
            LET g == (i - 1) \div 4
                k == (i - 1) % 4
                v == at(3 * g + 1) * 65536 + at(3 * g + 2) * 256 + at(3 * g + 3)
            IN  IF k = 0 THEN (v \div 262144) % 64
                ELSE IF k = 1 THEN (v \div 4096) % 64
                ELSE IF k = 2 THEN (IF 3 * g + 2 > n THEN 64 ELSE (v \div 64) % 64)
                ELSE (IF 3 * g + 3 > n THEN 64 ELSE v % 64)
    IN  [i \in 1..(4 * ((n + 2) \div 3)) |-> sym(i)]

-----------------------------------------------------------------------------
(* The environment: card images and transport responses. *)

\* status bytes the transport may answer with:
\* 0x90, 0x61, 0x91, 0x94 and 0x6A for sw1; 0x00 and 0x08 for sw2
Sw1Set == {144, 97, 145, 148, 106}
Sw2Set == {0, 8}

\* 1990-05-17, 2012-11-30, month 13, 30 February, year 0000, and a month
\* byte 0x0A, which decodes to month 10
Dates == [good1 |-> <<25, 144, 5, 23>>,
          good2 |-> <<32, 18, 17, 48>>,
          month13 |-> <<32, 18, 19, 1>>,
          feb30 |-> <<32, 35, 2, 48>>,
          year0 |-> <<0, 0, 1, 1>>,
          nibble |-> <<32, 18, 10, 1>>]

\* the card contents tried: birth date, issue date, sex byte, postcode bytes
Cards == {
    [birth |-> Dates.good1,   issue |-> Dates.good2,   sex |-> 76, postcode |-> <<80, 16, 0>>],
    [birth |-> Dates.nibble,  issue |-> Dates.good2,   sex |-> 80, postcode |-> <<5, 35, 0>>],
    [birth |-> Dates.month13, issue |-> Dates.good2,   sex |-> 76, postcode |-> <<80, 16, 0>>],
    [birth |-> Dates.good1,   issue |-> Dates.feb30,   sex |-> 76, postcode |-> <<80, 16, 0>>],
    [birth |-> Dates.year0,   issue |-> Dates.good2,   sex |-> 76, postcode |-> <<80, 16, 0>>] }

\* byte at (0-based) position pos of block b of a card; positions outside the
\* fields modelled carry a printable byte that identifies the position
CardByte(card, b, pos) ==
    IF b = 1 /\ pos \in 295..298 THEN card.birth[pos - 294]
    ELSE IF b = 1 /\ pos \in 324..327 THEN card.issue[pos - 323]
    ELSE IF b = 1 /\ pos = 286 THEN card.sex
    ELSE IF b = 3 /\ pos \in 93..95 THEN card.postcode[pos - 92]
    ELSE 32 + (pos % 95)

\* the n bytes a card delivers from stream position from
CardData(card, b, from, n) == [i \in 1..n |-> CardByte(card, b, from + i - 1)]

\* the data a read of block b may be answered with: n bytes of some card
DataChoices(b, from, n) == {CardData(card, b, from, n) : card \in Cards}

\* data lengths the transport may answer a read of `chunk` bytes with
RespLens(chunk) ==
    {chunk} \cup (IF devs < MaxDevs THEN {0, chunk - 1, chunk + 1} ELSE {})

Response(sw1, sw2, n) == [sw1 |-> sw1, sw2 |-> sw2, n |-> n]

-----------------------------------------------------------------------------
(* Card Protocol Driver and main(). *)

\* the blocks main() reads, in order: JPN 1/1, 1/2 and 1/4
Filen1(b) == 1
\* the photo and address files in the other order
Filen2_Swapped(b) == <<1, 4, 2>>[b]
Filen2(b) == <<1, 2, 4>>[b]
BlockLen(b) == <<jpn1_1_len, jpn1_2_len, jpn1_4_len>>[b]

\* 0x90 accepted only with sw2 0x00
SelectAccepted_Strict(sw1, sw2) == (sw1 = 144 /\ sw2 = 0) \/ sw1 = 97

\* (sw1 == 0x90 and sw2 == 0x00) or sw1 in (0x61, 0x90)
SelectAccepted(sw1, sw2) == (sw1 = 144 /\ sw2 = 0) \/ sw1 \in {97, 144}

\* sw2 not looked at
SetLengthAccepted_Sw1Only(sw1, sw2) == sw1 = 145

\* sw1 == 0x91 and sw2 == 0x08
SetLengthAccepted(sw1, sw2) == sw1 = 145 /\ sw2 = 8

\* 0x90 accepted as well
SelectInfoAccepted_Lax(sw1) == sw1 \in {148, 144}

\* sw1 == 0x94
SelectInfoAccepted(sw1) == sw1 = 148

\* 0x91 accepted as well
ReadAccepted_Lax(sw1) == sw1 \in {148, 144, 145}

\* sw1 in (0x94, 0x90)
ReadAccepted(sw1) == sw1 \in {148, 144}

\* every chunk is 0xFF bytes
ChunkOf_Fixed(rem) == MaxChunk

\* chunk = remaining if remaining < 0xFF else 0xFF
ChunkOf(rem) == IF rem < MaxChunk THEN rem ELSE MaxChunk

\* the chunk goes in front of the buffer
Extend_Prepend(buf, data) == data \o buf

\* out.extend(data)
Extend(buf, data) == buf \o data

\* the cursor is not moved
NextRemaining_Stuck(rem, chunk) == rem

\* remaining -= chunk
NextRemaining(rem, chunk) == rem - chunk

\* the exception is swallowed and the step is taken again
Raise_Retry(msg) ==
    /\ error' = msg
    /\ exitcode' = NoExit
    /\ pc' = pc

\* an exception nobody catches ends the run with a traceback and status 1
Raise(msg) ==
    /\ error' = msg
    /\ exitcode' = 1
    /\ pc' = "error"

\* every failure exits with status 1
Exit_One(msg, code) ==
    /\ stdout' = Append(stdout, [kind |-> "message", text |-> msg])
    /\ exitcode' = 1
    /\ pc' = "exited"

\* sys.exit(code) after printing msg
Exit(msg, code) ==
    /\ stdout' = Append(stdout, [kind |-> "message", text |-> msg])
    /\ exitcode' = code
    /\ pc' = "exited"

\* conn.transmit(apdu) answered by resp
Transmit(apdu, resp) ==
    /\ sent' = Append(sent, apdu)
    /\ last' = resp

NoResponse == Response(0, 0, 0)

InitCommon ==
    /\ out = <<>>
    /\ ret = NoBlock
    /\ fields = [parsed |-> 0]
    /\ stdout = <<>>
    /\ exitcode = NoExit
    /\ error = ""
    /\ sent = <<>>
    /\ last = NoResponse
    /\ cursor = 0
    /\ devs = 0
    /\ exact = TRUE

\* main() is entered
Init ==
    /\ InitCommon
    /\ call = NoCall
    /\ result = NoResult
    /\ pc = "readers"
    /\ blk = 0
    /\ length = 0
    /\ remaining = 0

\* rs = readers(); if not rs: exit 1
Readers ==
    /\ pc = "readers"
    /\ UNCHANGED <<call, result>>
    /\ \E found \in BOOLEAN :
        IF found
        THEN /\ pc' = "connect"
             /\ UNCHANGED <<stdout, exitcode>>
        ELSE Exit("No smart card readers found", 1)
    /\ UNCHANGED <<blk, length, remaining, out, ret, fields, error, sent, last,
                   cursor, devs, exact>>

\* conn.connect(); on an exception: exit 2
Connect ==
    /\ pc = "connect"
    /\ UNCHANGED <<call, result>>
    /\ \E present \in BOOLEAN :
        IF present
        THEN /\ pc' = "select_application"
             /\ UNCHANGED <<stdout, exitcode>>
        ELSE Exit("No card present. Please insert MyKad and try again.", 2)
    /\ UNCHANGED <<blk, length, remaining, out, ret, fields, error, sent, last,
                   cursor, devs, exact>>

\* if not select_application(conn): exit 3
SelectApplication ==
    /\ pc = "select_application"
    /\ UNCHANGED <<call, result>>
    /\ \E sw1 \in Sw1Set, sw2 \in Sw2Set :
        /\ Transmit(SelectApplicationApdu, Response(sw1, sw2, 0))
        /\ IF SelectAccepted(sw1, sw2)
           THEN /\ pc' = "set_length"
                /\ blk' = 1
                /\ UNCHANGED <<stdout, exitcode>>
           ELSE /\ Exit("Failed to select MyKad application (AID)", 3)
                /\ UNCHANGED blk
    /\ UNCHANGED <<length, remaining, out, ret, fields, error, cursor, devs, exact>>

\* set_length(conn, jpn1_x_len)
SetLength ==
    /\ pc = "set_length"
    /\ UNCHANGED <<call, result>>
    /\ \E sw1 \in Sw1Set, sw2 \in Sw2Set :
        /\ Transmit(SetLengthApdu(BlockLen(blk)), Response(sw1, sw2, 0))
        /\ IF SetLengthAccepted(sw1, sw2)
           THEN /\ pc' = "select_info"
                /\ UNCHANGED <<error, exitcode>>
           ELSE Raise("Failed to set length")
    /\ UNCHANGED <<blk, length, remaining, out, ret, fields, stdout, cursor, devs, exact>>

\* select_info(conn, 1, n, 0, jpn1_x_len), then the entry of
\* read_info(conn, jpn1_x_len): out = bytearray(); remaining = length
SelectInfo ==
    /\ pc = "select_info"
    /\ UNCHANGED <<call, result>>
    /\ \E sw1 \in Sw1Set, sw2 \in Sw2Set :
        /\ Transmit(SelectInfoApdu(Filen1(blk), Filen2(blk), 0, BlockLen(blk)),
                    Response(sw1, sw2, 0))
        /\ cursor' = 0
        /\ IF SelectInfoAccepted(sw1)
           THEN /\ pc' = "read_info"
                /\ length' = BlockLen(blk)
                /\ remaining' = BlockLen(blk)
                /\ out' = <<>>
                /\ exact' = TRUE
                /\ UNCHANGED <<error, exitcode>>
           ELSE /\ Raise("Failed to select info")
                /\ UNCHANGED <<length, remaining, out, exact>>
    /\ UNCHANGED <<blk, ret, fields, stdout, devs>>

\* one iteration of the loop of read_info
ReadChunk ==
    /\ pc = "read_info"
    /\ UNCHANGED <<call, result>>
    /\ remaining > 0
    /\ LET chunk == ChunkOf(remaining) IN
       \E sw1 \in Sw1Set, sw2 \in Sw2Set, n \in RespLens(chunk) :
        /\ Transmit(ReadInfoApdu(chunk), Response(sw1, sw2, n))
        /\ cursor' = cursor + n
        /\ devs' = IF n = chunk THEN devs ELSE devs + 1
        /\ exact' = (exact /\ ReadAccepted(sw1) /\ n = chunk)
        /\ IF ReadAccepted(sw1)
           THEN /\ remaining' = NextRemaining(remaining, chunk)
                /\ UNCHANGED <<pc, error, exitcode>>
                /\ \E data \in DataChoices(blk, cursor, n) : out' = Extend(out, data)
           ELSE /\ Raise("Failed to read info")
                /\ UNCHANGED <<out, remaining>>
    /\ UNCHANGED <<blk, length, ret, fields, stdout>>

\* the loop of read_info ends: return bytes(out)
ReadReturn ==
    /\ pc = "read_info"
    /\ UNCHANGED <<call, result>>
    /\ ~(remaining > 0)
    /\ ret' = out
    /\ out' = <<>>
    /\ pc' = "returned"
    /\ UNCHANGED <<blk, length, remaining, fields, stdout, exitcode, error, sent,
                   last, cursor, devs, exact>>

\* main(), lines 104-113: the profile block jpn1_1 is decoded
ParseProfile ==
    /\ pc = "returned"
    /\ UNCHANGED <<call, result>>
    /\ blk = 1
    /\ LET jpn1_1 == ret
           head == [parsed |-> 0,
                    name |-> parse_text(jpn1_1, 3, 150),
                    ic |-> parse_text(jpn1_1, 273, 13),
                    sex |-> SexOf(jpn1_1),
                    old_ic |-> parse_text(jpn1_1, 287, 8)]
           birth_date == convert_bcd_date(jpn1_1, 295)
           mid == [birth_date |-> birth_date,
                   birth_place |-> parse_text(jpn1_1, 299, 25)] @@ head
           issue_date == convert_bcd_date(jpn1_1, 324)
           all == [parsed |-> 1,
                   issue_date |-> issue_date,
                   citizenship |-> parse_text(jpn1_1, 328, 18),
                   race |-> parse_text(jpn1_1, 346, 25),
                   religion |-> parse_text(jpn1_1, 371, 11)] @@ mid
       IN  IF birth_date.err # ""
           THEN /\ Raise(birth_date.err)
                /\ fields' = head
                /\ UNCHANGED blk
           ELSE IF issue_date.err # ""
           THEN /\ Raise(issue_date.err)
                /\ fields' = mid
                /\ UNCHANGED blk
           ELSE /\ fields' = all
                /\ blk' = 2
                /\ pc' = "set_length"
                /\ UNCHANGED <<error, exitcode>>
    /\ UNCHANGED <<length, remaining, out, ret, stdout, sent, last, cursor, devs, exact>>

\* main(), line 118: photo_bytes = jpn1_2[3:3 + 4000]
ParsePhoto ==
    /\ pc = "returned"
    /\ UNCHANGED <<call, result>>
    /\ blk = 2
    /\ fields' = [parsed |-> 2, photo_bytes |-> Slice(ret, 3, 3 + 4000)] @@ fields
    /\ blk' = 3
    /\ pc' = "set_length"
    /\ UNCHANGED <<length, remaining, out, ret, stdout, exitcode, error, sent, last,
                   cursor, devs, exact>>

\* main(), lines 123-128: the address block jpn1_4 is decoded
ParseAddress ==
    /\ pc = "returned"
    /\ UNCHANGED <<call, result>>
    /\ blk = 3
    /\ LET jpn1_4 == ret
           head == [address1 |-> parse_text(jpn1_4, 3, 30),
                    address2 |-> parse_text(jpn1_4, 33, 30),
                    address3 |-> parse_text(jpn1_4, 63, 30)] @@ fields
           postcode == convert_bcd_postcode(jpn1_4, 93)
           all == [parsed |-> 3,
                   postcode |-> postcode.n,
                   city |-> parse_text(jpn1_4, 96, 25),
                   state |-> parse_text(jpn1_4, 121, 30)] @@ head
       IN  IF postcode.err # ""
           THEN /\ Raise(postcode.err)
                /\ fields' = head
           ELSE /\ fields' = all
                /\ pc' = "output"
                /\ UNCHANGED <<error, exitcode>>
    /\ UNCHANGED <<blk, length, remaining, out, ret, stdout, sent, last, cursor,
                   devs, exact>>

\* the result dict of main(), lines 130-148
Result ==
    [IC |-> fields.ic, Name |-> fields.name, Sex |-> fields.sex,
     OldIC |-> fields.old_ic,
     BirthDate |-> Strftime(fields.birth_date),
     BirthPlace |-> fields.birth_place,
     IssueDate |-> Strftime(fields.issue_date),
     Citizenship |-> fields.citizenship, Race |-> fields.race,
     Religion |-> fields.religion,
     Address1 |-> fields.address1, Address2 |-> fields.address2,
     Address3 |-> fields.address3,
     Postcode |-> Str(fields.postcode),
     City |-> fields.city, State |-> fields.state,
     PhotoLength |-> Len(fields.photo_bytes)]

\* the command lines tried: no argument, --json, an argument argparse rejects
ArgvSet == {"", "--json", "--bogus"}

\* main(), lines 130-179: the profile is printed as text or as JSON
Output ==
    /\ pc = "output"
    /\ UNCHANGED <<call, result>>
    /\ \E argv \in ArgvSet :
        IF argv = "--bogus"
        THEN /\ exitcode' = 2
             /\ pc' = "exited"
             /\ UNCHANGED stdout
        ELSE /\ stdout' = Append(stdout,
                    IF argv = "--json"
                    THEN [kind |-> "json",
                          profile |-> [k \in DOMAIN Result \ {"PhotoLength"} |-> Result[k]],
                          PhotoDataUrl |-> <<"data:image/jpeg;base64,", B64(fields.photo_bytes)>>]
                    ELSE [kind |-> "text", profile |-> Result])
             /\ exitcode' = 0
             /\ pc' = "done"
    /\ UNCHANGED <<blk, length, remaining, out, ret, fields, error, sent, last,
                   cursor, devs, exact>>

Next ==
    \/ Readers
    \/ Connect
    \/ SelectApplication
    \/ SetLength
    \/ SelectInfo
    \/ ReadChunk
    \/ ReadReturn
    \/ ParseProfile
    \/ ParsePhoto
    \/ ParseAddress
    \/ Output

Spec == Init /\ [][Next]_vars

-----------------------------------------------------------------------------
(* read_info on its own: any declared length, no enclosing main(). *)

ReadLengths == (0..MaxLen) \cup {jpn1_1_len, jpn1_2_len, jpn1_4_len}

\* read_info(conn, length) is entered: out = bytearray(); remaining = length
InitRead ==
    /\ InitCommon
    /\ call = NoCall
    /\ result = NoResult
    /\ pc = "read_info"
    /\ blk = 0
    /\ length \in ReadLengths
    /\ remaining = length

NextRead ==
    \/ ReadChunk
    \/ ReadReturn

SpecRead == InitRead /\ [][NextRead]_vars

-----------------------------------------------------------------------------
(* The reading of one block on its own: the three statements of main()       *)
(*   set_length(conn, len); select_info(conn, 1, n, 0, len);                 *)
(*   jpn1_x = read_info(conn, len)                                           *)
(* for each of the three blocks, the log of commands starting at the block.  *)

\* main() is about to read block blk; `length` still holds the argument of
\* the read_info call before, if there was one
InitBlock ==
    /\ InitCommon
    /\ call = NoCall
    /\ result = NoResult
    /\ pc = "set_length"
    /\ blk \in 1..3
    /\ length = IF blk = 1 THEN 0 ELSE BlockLen(blk - 1)
    /\ remaining = 0

NextBlock ==
    \/ SetLength
    \/ SelectInfo
    \/ ReadChunk
    \/ ReadReturn

\* conn.transmit blocks until the card answers, and the interpreter goes on
\* to the next statement: a step that can be taken is taken
FairBlock == InitBlock /\ [][NextBlock]_vars /\ WF_vars(NextBlock)

-----------------------------------------------------------------------------
(* transmit_apdu on its own: any header, payload and expected length. *)

Headers == {<<0, 164, 4, 0>>, <<200, 50, 0, 0>>, <<204, 6, 0, 0>>, <<255, 255, 255, 255>>}

PayloadBytes == {0, 1, 255}

\* all payloads of at most MaxPayload bytes, and payloads of 255, 256 and 300 bytes
Payloads ==
    UNION {[1..n -> PayloadBytes] : n \in 0..MaxPayload}
        \cup {[i \in 1..n |-> 17] : n \in {255, 256, 300}}

FrameCalls ==
    [fn : {"transmit_apdu"}, header : Headers,
     data : Payloads \cup {NoData}, le : {NoLe, 0, 1, 255}]

InitFn ==
    /\ InitCommon
    /\ pc = "call"
    /\ blk = 0
    /\ length = 0
    /\ remaining = 0
    /\ result = NoResult

InitFrame == InitFn /\ call \in FrameCalls

\* transmit_apdu(conn, cla, ins, p1, p2, data, le)
TransmitApdu ==
    /\ pc = "call"
    /\ call.fn = "transmit_apdu"
    /\ \E sw1 \in Sw1Set, sw2 \in Sw2Set :
        /\ Transmit(Apdu(call.header[1], call.header[2], call.header[3], call.header[4],
                         call.data, call.le),
                    Response(sw1, sw2, 0))
        /\ result' = [err |-> "", response |-> <<>>, sw1 |-> sw1, sw2 |-> sw2]
    /\ pc' = "called"
    /\ UNCHANGED <<blk, length, remaining, out, ret, fields, stdout, exitcode, error,
                   cursor, devs, exact, call>>

NextFrame == TransmitApdu

SpecFrame == InitFrame /\ [][NextFrame]_vars

-----------------------------------------------------------------------------
(* le_short on its own: integers inside and outside the 16-bit range. *)

ShortCalls == [fn : {"le_short"}, x : (0 - ShortMargin)..(65535 + ShortMargin)]

InitShort == InitFn /\ call \in ShortCalls

\* le_short(x)
LeShort ==
    /\ pc = "call"
    /\ call.fn = "le_short"
    /\ result' = [err |-> "", val |-> le_short(call.x)]
    /\ pc' = "called"
    /\ UNCHANGED <<blk, length, remaining, out, ret, fields, stdout, exitcode, error,
                   sent, last, cursor, devs, exact, call>>

NextShort == LeShort

SpecShort == InitShort /\ [][NextShort]_vars

-----------------------------------------------------------------------------
(* The BCD decoders on their own, on fields encoded from known values. *)

\* the BCD byte of a number 0..99: one decimal digit per nibble, tens first
ToBcd(v) == (v \div 10) * 16 + (v % 10)

\* year in 2 bytes, month and day in 1 byte each
EncodeBcdDate(y, m, d) == <<ToBcd(y \div 100), ToBcd(y % 100), ToBcd(m), ToBcd(d)>>

\* the 6 digits of n in 3 bytes
EncodeBcd6(n) == <<ToBcd(n \div 10000), ToBcd((n \div 100) % 100), ToBcd(n % 100)>>

\* a block with the field at the offset, after bytes that are no BCD digits
BlockWith(field, offset) == [i \in 1..offset |-> 255] \o field \o <<255>>

\* every day number 1..31 of every month of 1900..2099, 30 February included
DateCalls ==
    {[fn |-> "convert_bcd_date", year |-> y, month |-> m, day |-> d, offset |-> o,
      data |-> BlockWith(EncodeBcdDate(y, m, d), o)] :
        y \in 1900..2099, m \in 1..12, d \in 1..31, o \in 0..MaxOffset}

InitDate == InitFn /\ call \in DateCalls

\* convert_bcd_date(data, offset)
ConvertBcdDate ==
    /\ pc = "call"
    /\ call.fn = "convert_bcd_date"
    /\ result' = convert_bcd_date(call.data, call.offset)
    /\ pc' = "called"
    /\ UNCHANGED <<blk, length, remaining, out, ret, fields, stdout, exitcode, error,
                   sent, last, cursor, devs, exact, call>>

NextDate == ConvertBcdDate

SpecDate == InitDate /\ [][NextDate]_vars

\* every postcode of 5 digits, stored with one more digit after it
PostcodeCalls ==
    {[fn |-> "convert_bcd_postcode", p |-> p, offset |-> o,
      data |-> BlockWith(EncodeBcd6(p * 10), o)] :
        p \in 0..99999, o \in 0..MaxOffset}

InitPostcode == InitFn /\ call \in PostcodeCalls

\* convert_bcd_postcode(data, offset)
ConvertBcdPostcode ==
    /\ pc = "call"
    /\ call.fn = "convert_bcd_postcode"
    /\ result' = convert_bcd_postcode(call.data, call.offset)
    /\ pc' = "called"
    /\ UNCHANGED <<blk, length, remaining, out, ret, fields, stdout, exitcode, error,
                   sent, last, cursor, devs, exact, call>>

NextPostcode == ConvertBcdPostcode

SpecPostcode == InitPostcode /\ [][NextPostcode]_vars

-----------------------------------------------------------------------------
(* Vocabulary of the properties. *)

IsPrefix(s, t) == Len(s) <= Len(t) /\ s = SubSeq(t, 1, Len(s))

\* the commands of the protocol, by their class and instruction bytes
IsSelect(cmd) == cmd[1] = 0 /\ cmd[2] = 164
IsDeclare(cmd) == cmd[1] = 200
IsRegion(cmd) == cmd[1] = 204 /\ cmd[2] = 0
IsRead(cmd) == cmd[1] = 204 /\ cmd[2] = 6

\* the expected-length byte of a read command
LeOf(cmd) == cmd[Len(cmd)]

\* the read commands of a block of n bytes: 255 bytes each, the rest in the last
CanonReads(n) ==
    [k \in 1..((n + 254) \div 255) |->
        <<204, 6, 0, 0, IF n - 255 * (k - 1) < 255 THEN n - 255 * (k - 1) ELSE 255>>]

\* declare-length, select-region and reads of file 1/f with length lo + 256 * hi
CanonBlock(f, lo, hi) ==
    << <<200, 50, 0, 0, 5, 8, 0, 0, lo, hi, 0>>,
       <<204, 0, 0, 0, 8, f, 0, 1, 0, 0, 0, lo, hi, 0>> >>
        \o CanonReads(lo + 256 * hi)

Canonical ==
    << <<0, 164, 4, 0, 10, 160, 0, 0, 0, 116, 74, 80, 78, 0, 16, 0>> >>
        \o CanonBlock(1, 203, 1) \o CanonBlock(2, 171, 15) \o CanonBlock(4, 171, 0)

-----------------------------------------------------------------------------
(* C1: in every run, whatever the transport answers, the commands           *)
(* transmitted so far are a prefix of the canonical sequence (SELECT, then   *)
(* for the blocks 1/1 (459), 1/2 (4011), 1/4 (171): declare-length,          *)
(* select-region, reads), and a run that reaches the output has transmitted  *)
(* exactly the 26 commands of that sequence.                                 *)
C1_CanonicalOrder ==
    /\ IsPrefix(sent, Canonical)
    /\ Len(Canonical) = 26
    /\ pc \in {"output", "done"} => sent = Canonical /\ Len(sent) = 26

C1_Witness == pc = "done" /\ Len(sent) = 26 /\ devs = 0

-----------------------------------------------------------------------------
(* C2: when every read is answered with an accepted status and exactly the   *)
(* requested number of bytes, read_info(n) sends ceil(n/255) reads, read k   *)
(* asking for min(n - 255(k-1), 255) bytes, the buffer is at every moment    *)
(* the bytes delivered so far in order, and the block returned is the n      *)
(* bytes of the stream; for n = 4011 that is 16 reads and 4011 bytes.        *)
C2_ChunkedRead ==
    LET stream(n) == [j \in 1..n |-> 32 + ((j - 1) % 95)] IN
    exact =>
        /\ \A k \in 1..Len(sent) :
              /\ IsRead(sent[k])
              /\ Len(sent[k]) = 5
              /\ LeOf(sent[k]) = Min(length - 255 * (k - 1), 255)
        /\ pc = "read_info" =>
              /\ remaining = length - 255 * Len(sent) \/ remaining = 0
              /\ out = stream(length - remaining)
        /\ pc = "returned" =>
              /\ Len(sent) = (length + 254) \div 255
              /\ Len(ret) = length
              /\ ret = stream(length)
              /\ length = 4011 => Len(sent) = 16 /\ Len(ret) = 4011

C2_Witness ==
    pc = "returned" /\ exact /\ length = 4011 /\ Len(sent) = 16 /\ Len(ret) = 4011

-----------------------------------------------------------------------------
(* C3 as stated: in the read of a block of declared length 4011 the 16th     *)
(* read command requests 786 bytes.                                          *)
C3_Original == (length = 4011 /\ Len(sent) >= 16) => LeOf(sent[16]) = 786

(* C3, amended: in the read of a block of declared length 4011 the 16th      *)
(* read command is the last one and requests 4011 - 15 * 255 = 186 bytes.    *)
C3_LastChunk ==
    (length = 4011 /\ Len(sent) >= 16) =>
        /\ LeOf(sent[16]) = 186
        /\ Len(sent) = 16
        /\ \A k \in 1..15 : LeOf(sent[k]) = 255

C3_Witness == length = 4011 /\ Len(sent) = 16 /\ pc = "returned"

-----------------------------------------------------------------------------
(* C4 as stated: every block read_info returns has exactly `length` bytes,   *)
(* whatever the lengths of the data of the (accepted) read responses.        *)
C4_ExactLength == pc = "returned" => Len(ret) = length

-----------------------------------------------------------------------------
Last(s) == s[Len(s)]

\* the step transmits a command
Transmits == Len(sent') = Len(sent) + 1

(* C5: a read response whose first status byte is neither 0x94 nor 0x90      *)
(* makes the block read fail at that chunk with "Failed to read info": the   *)
(* bytes accumulated are not returned (no block value reaches the caller)    *)
(* and no further read command is sent.                                      *)
C5_ReadFailed ==
    [][ /\ (Transmits /\ IsRead(Last(sent')) /\ last'.sw1 \notin {148, 144}) =>
              /\ pc' = "error"
              /\ error' = "Failed to read info"
              /\ exitcode' = 1
              /\ ret' = NoBlock
        /\ (Transmits /\ sent # <<>>) => last.sw1 \in {148, 144}
        /\ pc' = "returned" =>
              /\ pc = "read_info" /\ error = ""
              /\ sent # <<>> => last.sw1 \in {148, 144}
      ]_vars

C5_Witness ==
    /\ pc = "error" /\ error = "Failed to read info"
    /\ Len(sent) = 2 /\ Len(out) = 255 /\ ret = NoBlock
    /\ last.sw1 = 145

-----------------------------------------------------------------------------
(* C6: the declare-length step succeeds exactly when the response is         *)
(* (0x91, 0x08); after any other status word the run fails with "Failed to   *)
(* set length", and a select-region command is only ever transmitted right   *)
(* after a declare-length command that was answered (0x91, 0x08).            *)
C6_DeclareLength ==
    [][ /\ (Transmits /\ IsDeclare(Last(sent'))) =>
              IF last'.sw1 = 145 /\ last'.sw2 = 8
              THEN pc' = "select_info" /\ error' = "" /\ exitcode' = NoExit
              ELSE pc' = "error" /\ error' = "Failed to set length" /\ exitcode' = 1
        /\ (Transmits /\ IsRegion(Last(sent'))) =>
              /\ sent # <<>>
              /\ IsDeclare(Last(sent))
              /\ last.sw1 = 145 /\ last.sw2 = 8
      ]_vars

C6_Witness ==
    /\ pc = "error" /\ error = "Failed to set length"
    /\ IsDeclare(Last(sent)) /\ last.sw1 = 145 /\ last.sw2 = 0

-----------------------------------------------------------------------------
(* C7: the select-region step succeeds exactly when the first status byte    *)
(* of its response is 0x94, whatever the second; after any other first       *)
(* status byte the run fails with "Failed to select info", and the first     *)
(* read command of a block is only ever transmitted right after a            *)
(* select-region command whose response had first status byte 0x94.          *)
C7_SelectRegion ==
    [][ /\ (Transmits /\ IsRegion(Last(sent'))) =>
              IF last'.sw1 = 148
              THEN pc' = "read_info" /\ error' = "" /\ exitcode' = NoExit
              ELSE pc' = "error" /\ error' = "Failed to select info" /\ exitcode' = 1
        /\ (Transmits /\ IsRead(Last(sent'))) =>
              /\ sent # <<>>
              /\ IsRegion(Last(sent)) \/ IsRead(Last(sent))
              /\ IsRegion(Last(sent)) => last.sw1 = 148
      ]_vars

C7_Witness ==
    /\ pc = "error" /\ error = "Failed to select info"
    /\ IsRegion(Last(sent)) /\ last.sw1 = 144 /\ last.sw2 = 0

-----------------------------------------------------------------------------
(* C8: application selection succeeds exactly when sw1 is 0x61 or 0x90 (for  *)
(* any sw2), which is the same as status (0x90, 0x00) or sw1 0x61 or 0x90;   *)
(* on every other status the run prints the selection failure, exits with    *)
(* status 3, and SELECT stays the only command ever transmitted.             *)
C8_SelectApplication ==
    [][ /\ (Transmits /\ IsSelect(Last(sent'))) =>
              /\ (last'.sw1 \in {97, 144})
                    <=> ((last'.sw1 = 144 /\ last'.sw2 = 0) \/ last'.sw1 = 97 \/ last'.sw1 = 144)
              /\ IF last'.sw1 \in {97, 144}
                 THEN pc' = "set_length" /\ exitcode' = NoExit /\ stdout' = <<>>
                 ELSE /\ pc' = "exited" /\ exitcode' = 3
                      /\ stdout' = <<[kind |-> "message",
                                      text |-> "Failed to select MyKad application (AID)"]>>
                      /\ Len(sent') = 1
        /\ (Transmits /\ ~IsSelect(Last(sent'))) =>
              /\ sent # <<>>
              /\ IsSelect(sent[1])
              /\ exitcode = NoExit
              /\ Len(sent) = 1 => last.sw1 \in {97, 144}
      ]_vars

C8_Witness ==
    /\ pc = "exited" /\ exitcode = 3 /\ Len(sent) = 1 /\ IsSelect(sent[1])
    /\ last.sw1 = 148

-----------------------------------------------------------------------------
\* the status check the driver applies to the response to cmd rejects resp
Rejected(cmd, resp) ==
    \/ IsSelect(cmd) /\ resp.sw1 \notin {97, 144}
    \/ IsDeclare(cmd) /\ ~(resp.sw1 = 145 /\ resp.sw2 = 8)
    \/ IsRegion(cmd) /\ resp.sw1 # 148
    \/ IsRead(cmd) /\ resp.sw1 \notin {148, 144}

(* C9: there is no retry: a response that fails its status check ends the    *)
(* run at once, and a command is only ever transmitted while the run has not *)
(* ended and the response to the previous command passed its check, so that  *)
(* nothing follows the first failed check.                                   *)
C9_NoRetry ==
    [][ /\ (Transmits /\ Rejected(Last(sent'), last')) =>
              /\ pc' \in {"error", "exited"}
              /\ exitcode' \in {1, 3}
        /\ Transmits =>
              /\ exitcode = NoExit /\ error = ""
              /\ sent # <<>> => ~Rejected(Last(sent), last)
        /\ (sent' # sent) => Transmits /\ sent = SubSeq(sent', 1, Len(sent))
      ]_vars

C9_Witness ==
    /\ pc = "error" /\ error = "Failed to read info"
    /\ blk = 2 /\ Len(sent) = 10 /\ Rejected(Last(sent), last)

-----------------------------------------------------------------------------
\* (y, m, d) is a date of the calendar, years 1 to 9999
CalendarDate(y, m, d) ==
    /\ y \in 1..9999
    /\ m \in 1..12
    /\ d \in 1..31
    /\ m \in {4, 6, 9, 11} => d <= 30
    /\ m = 2 => d <= 29
    /\ (m = 2 /\ d = 29) => (y % 4 = 0 /\ (y % 100 # 0 \/ y % 400 = 0))

\* the digits of the BCD date at 0-based offset o of block b
BcdYear(b, o) ==
    (b[o + 1] \div 16) * 1000 + (b[o + 1] % 16) * 100
        + (b[o + 2] \div 16) * 10 + (b[o + 2] % 16)
BcdTwo(b, o) == (b[o + 1] \div 16) * 10 + (b[o + 1] % 16)

HasProfile == \E i \in 1..Len(stdout) : stdout[i].kind \in {"text", "json"}

(* C10: a profile is printed only by a run that transmitted the whole        *)
(* canonical sequence (selection and the three block reads, in order) and    *)
(* whose two BCD dates are calendar dates; a run that ended with an error or *)
(* a failure exit has printed no profile, and the profile block is decoded   *)
(* further only when both of its dates are calendar dates.                   *)
C10_ProfileOnlyOnSuccess ==
    /\ HasProfile =>
          /\ pc = "done" /\ exitcode = 0 /\ error = ""
          /\ Len(stdout) = 1
          /\ sent = Canonical
          /\ fields.parsed = 3
          /\ CalendarDate(fields.birth_date.year, fields.birth_date.month,
                          fields.birth_date.day)
          /\ CalendarDate(fields.issue_date.year, fields.issue_date.month,
                          fields.issue_date.day)
          /\ stdout[1].profile.BirthDate[4] = fields.birth_date.year
          /\ stdout[1].profile.IssueDate[4] = fields.issue_date.year
    /\ (error # "" \/ exitcode \notin {NoExit, 0}) => ~HasProfile
    /\ (blk = 2 /\ pc = "set_length") =>
          /\ Len(ret) >= 328
          /\ CalendarDate(BcdYear(ret, 295), BcdTwo(ret, 297), BcdTwo(ret, 298))
          /\ CalendarDate(BcdYear(ret, 324), BcdTwo(ret, 326), BcdTwo(ret, 327))
          /\ fields.birth_date.year = BcdYear(ret, 295)
          /\ fields.issue_date.day = BcdTwo(ret, 327)

\* the issue date is malformed: the name and birth date were decoded, yet
\* nothing is printed
C10_Witness ==
    /\ pc = "error" /\ error = "ValueError"
    /\ "birth_date" \in DOMAIN fields /\ fields.birth_date.err = ""
    /\ stdout = <<>>

-----------------------------------------------------------------------------
\* the frame a call of transmit_apdu handed to the transport
Frame == sent[1]

HasData == call.data # NoData
HasLe == call.le # NoLe

(* C11 as stated: building a frame with a payload longer than 255 bytes      *)
(* fails with InvalidPayload, so that no frame whose length byte exceeds 255 *)
(* is built or transmitted.                                                  *)
C11_InvalidPayload ==
    (pc = "called" /\ HasData /\ Len(call.data) > 255) =>
        /\ result.err = "InvalidPayload"
        /\ sent = <<>>

-----------------------------------------------------------------------------
\* the (data, le) arguments a frame of at least 4 bytes is read back as
DecodeFrame(f) ==
    IF Len(f) = 4 THEN [data |-> NoData, le |-> NoLe]
    ELSE IF Len(f) = 5 THEN [data |-> NoData, le |-> f[5]]
    ELSE IF Len(f) = 5 + f[5] THEN [data |-> SubSeq(f, 6, Len(f)), le |-> NoLe]
    ELSE [data |-> SubSeq(f, 6, Len(f) - 1), le |-> f[Len(f)]]

\* the calls whose payload fits the length byte
FitCalls == {c \in FrameCalls : c.data = NoData \/ Len(c.data) <= 255}

BuiltBy(c) == Apdu(c.header[1], c.header[2], c.header[3], c.header[4], c.data, c.le)

(* C13 as stated: for payloads of at most 255 bytes the frame built          *)
(* determines the arguments, presence of payload and of expected length      *)
(* included: no two distinct argument combinations build the same frame.     *)
C13_Original ==
    (pc = "called" /\ call \in FitCalls) =>
        \A c \in FitCalls : BuiltBy(c) = Frame => c = call

(* C13, amended: for payloads of at most 255 bytes the frame built           *)
(* determines the header, and the payload and expected length too, with one  *)
(* exception: an empty payload without expected length and no payload with   *)
(* expected length 0 build the same 5-byte frame (header, 0); no other two   *)
(* argument combinations build the same frame.                               *)
C13_FrameDecodes ==
    (pc = "called" /\ call \in FitCalls) =>
        /\ SubSeq(Frame, 1, 4) = call.header
        /\ IF call.data = <<>> /\ ~HasLe
           THEN /\ Frame = call.header \o <<0>>
                /\ DecodeFrame(Frame) = [data |-> NoData, le |-> 0]
           ELSE DecodeFrame(Frame) = [data |-> call.data, le |-> call.le]
        /\ \A c \in FitCalls :
              (BuiltBy(c) = Frame /\ c # call) =>
                  /\ c.header = call.header
                  /\ {c.data, call.data} = {<<>>, NoData}
                  /\ {c.le, call.le} = {NoLe, 0}
                  /\ (c.data = NoData) <=> (c.le = 0)

C13_Witness ==
    /\ pc = "called" /\ call.data = <<>> /\ call.le = NoLe
    /\ Len(Frame) = 5 /\ Frame[5] = 0

-----------------------------------------------------------------------------
(* C14: for a payload of at most 255 bytes (or none) and any expected        *)
(* length (or none, 0 being one), the frame transmitted is the 4 header      *)
(* bytes, then the length byte and the payload if there is a payload, then   *)
(* the expected length if there is one, and it has                           *)
(* 4 + (1 + len(data)) + 1 bytes, the optional parts counted when present.   *)
C14_FrameLayout ==
    (pc = "called" /\ call \in FitCalls) =>
        LET n == IF HasData THEN Len(call.data) ELSE 0
            body == IF HasData THEN 1 + n ELSE 0
        IN  /\ Len(sent) = 1
            /\ Len(Frame) = 4 + body + (IF HasLe THEN 1 ELSE 0)
            /\ \A i \in 1..4 : Frame[i] = call.header[i]
            /\ HasData => (Frame[5] = n /\ \A i \in 1..n : Frame[5 + i] = call.data[i])
            /\ HasLe => Frame[4 + body + 1] = call.le

C14_Witness ==
    /\ pc = "called" /\ Len(call.data) = 255 /\ HasData /\ call.le = 0
    /\ Len(Frame) = 261 /\ Frame[5] = 255 /\ Frame[261] = 0

-----------------------------------------------------------------------------
(* C12 as stated: le_short fails with OutOfRange for every integer that does *)
(* not fit in 16 bits (x < 0 or x > 65535) instead of returning two bytes.  *)
C12_OutOfRange ==
    (pc = "called" /\ (call.x < 0 \/ call.x > 65535)) => result.err = "OutOfRange"

-----------------------------------------------------------------------------
\* the integer a (low, high) byte pair stands for
decodeShort(p) == p[1] + 256 * p[2]

(* C15: for every x in 0..65535 le_short returns two bytes (low, high), each *)
(* in 0..255, with low + 256 * high = x: decodeShort undoes it, so distinct  *)
(* x give distinct pairs, and the pair of every x is the one that decodes    *)
(* to x, so every byte pair is reached.                                      *)
C15_ShortBijection ==
    (pc = "called" /\ call.x \in 0..65535) =>
        /\ result.err = ""
        /\ Len(result.val) = 2
        /\ result.val[1] \in 0..255
        /\ result.val[2] \in 0..255
        /\ result.val[1] = call.x % 256
        /\ decodeShort(result.val) = call.x

C15_Witness ==
    pc = "called" /\ call.x = 4011 /\ result.val = <<171, 15>>

-----------------------------------------------------------------------------
(* C16: for every calendar date from 1900-01-01 to 2099-12-31, written as 4  *)
(* BCD bytes (2 of year, 1 of month, 1 of day, high nibble first) at any     *)
(* offset of a block, convert_bcd_date at that offset returns that year,     *)
(* month and day and raises nothing.                                         *)
C16_DateRoundTrip ==
    (pc = "called" /\ CalendarDate(call.year, call.month, call.day)) =>
        /\ result.err = ""
        /\ result.year = call.year
        /\ result.month = call.month
        /\ result.day = call.day

\* 29 February 2000, read at offset 1
C16_Witness ==
    /\ pc = "called" /\ call.offset = 1
    /\ call.data = <<255, 32, 0, 2, 41, 255>>
    /\ result = [err |-> "", year |-> 2000, month |-> 2, day |-> 29]

-----------------------------------------------------------------------------
(* C17: for every 5-digit postcode p, convert_bcd_postcode on the 3 BCD      *)
(* bytes of p * 10 returns p: the 6-digit value divided by 10, its last      *)
(* digit dropped.                                                            *)
C17_Postcode ==
    pc = "called" =>
        /\ result.err = ""
        /\ result.n = call.p
        /\ result.n = (BcdTwo(call.data, call.offset) * 10000
                        + BcdTwo(call.data, call.offset + 1) * 100
                        + BcdTwo(call.data, call.offset + 2)) \div 10

\* postcode 50100 stored as 50 10 00
C17_Witness ==
    /\ pc = "called" /\ call.p = 50100 /\ call.offset = 0
    /\ call.data = <<80, 16, 0, 255>>
    /\ result.n = 50100

-----------------------------------------------------------------------------
Printed(msg) == stdout = <<[kind |-> "message", text |-> msg]>>

NoReaderMsg == "No smart card readers found"
NoCardMsg == "No card present. Please insert MyKad and try again."
NoAppMsg == "Failed to select MyKad application (AID)"

(* C18: no reader, no card and a failed application selection end the run    *)
(* with the exit statuses 1, 2 and 3, three different ones, each before any  *)
(* later step: nothing was transmitted when the run ends for want of a       *)
(* reader or of a card, SELECT alone when selection failed; the connection   *)
(* is attempted only right after a reader was found, SELECT is sent only     *)
(* right after the connection succeeded, and a run that has exited takes no  *)
(* further step.                                                             *)
C18_ExitCodes ==
    [][ /\ Printed(NoReaderMsg)' => (pc' = "exited" /\ exitcode' = 1 /\ sent' = <<>>)
        /\ Printed(NoCardMsg)' => (pc' = "exited" /\ exitcode' = 2 /\ sent' = <<>>)
        /\ Printed(NoAppMsg)' =>
              (pc' = "exited" /\ exitcode' = 3 /\ Len(sent') = 1 /\ IsSelect(sent'[1]))
        /\ pc = "readers" =>
              \/ pc' = "connect" /\ exitcode' = NoExit /\ stdout' = <<>>
              \/ pc' = "exited" /\ exitcode' = 1 /\ Printed(NoReaderMsg)'
        /\ pc = "connect" =>
              \/ pc' = "select_application" /\ exitcode' = NoExit /\ stdout' = <<>>
              \/ pc' = "exited" /\ exitcode' = 2 /\ Printed(NoCardMsg)'
        /\ (pc = "select_application" /\ pc' = "exited") =>
              exitcode' = 3 /\ Printed(NoAppMsg)'
        /\ pc' = "connect" => pc = "readers"
        /\ pc' = "select_application" => pc = "connect"
        /\ Transmits => (exitcode = NoExit /\ stdout = <<>> /\ pc \notin {"readers", "connect"})
        /\ (Transmits /\ IsSelect(Last(sent'))) => pc = "select_application"
        /\ pc = "exited" => pc' = "exited" /\ sent' = sent /\ exitcode' = exitcode
      ]_vars

C18_Witness ==
    pc = "exited" /\ exitcode = 2 /\ Printed(NoCardMsg) /\ sent = <<>>

-----------------------------------------------------------------------------
\* the read of block b has run to completion, or the run has failed outright
BlockSettled(b) ==
    \/ pc = "error"
    \/ pc = "returned" /\ blk = b /\ remaining = 0 /\ ret # NoBlock

(* C19: once declare-length has succeeded for a block, and the transport     *)
(* answering every command, the run reaches one of two outcomes for that     *)
(* block: the read loop has run to completion (remaining = 0 and the block   *)
(* returned) or the run has failed; every iteration of the loop that goes on *)
(* lowers `remaining` by at least 1 and never below 0, and the loop ends     *)
(* only at remaining = 0 or with the failure.                                *)
C19_BlockReadTerminates ==
    /\ \A b \in 1..3 : (pc = "select_info" /\ blk = b) ~> BlockSettled(b)
    /\ [][ /\ (pc = "read_info" /\ pc' = "read_info") =>
                 (remaining' <= remaining - 1 /\ remaining' >= 0)
           /\ (pc = "read_info" /\ pc' # "read_info") =>
                 \/ pc' = "error" /\ ret' = ret
                 \/ pc' = "returned" /\ remaining = 0 /\ remaining' = 0 /\ ret' = out
         ]_vars

\* the photo block has been read by its 16 read commands
C19_Witness ==
    /\ pc = "returned" /\ blk = 2 /\ remaining = 0 /\ ret # NoBlock
    /\ Len(sent) = 18 /\ devs = 0

-----------------------------------------------------------------------------
\* the length a declare-length command carries: bytes 4 and 5 of its payload
DeclaredLen(cmd) == cmd[9] + 256 * cmd[10]

\* the file a select-region command names and the length it carries: the
\* first and the last 16-bit field of its payload
RegionFile(cmd) == cmd[6] + 256 * cmd[7]
RegionLen(cmd) == cmd[12] + 256 * cmd[13]

\* the lengths of the three blocks, by the number of their file
LenOfFile(f) == IF f = 1 THEN 459 ELSE IF f = 2 THEN 4011 ELSE IF f = 4 THEN 171 ELSE -1

\* the index of the last of the read commands that follow command j
RECURSIVE LastReadAfter(_)
LastReadAfter(j) ==
    IF j < Len(sent) /\ IsRead(sent[j + 1]) THEN LastReadAfter(j + 1) ELSE j

RECURSIVE SumLe(_, _)
\* the sum of the expected-length bytes of the commands a..b
SumLe(a, b) == IF a > b THEN 0 ELSE LeOf(sent[a]) + SumLe(a + 1, b)

\* the block read started by the select-region command j has returned: a
\* command of a later block follows its reads, or the run has left read_info
\* otherwise than by the failure of select_info or of a read
ReadCompleted(j) ==
    \/ LastReadAfter(j) < Len(sent)
    \/ /\ pc # "read_info"
       /\ error \notin {"Failed to select info", "Failed to read info"}

(* C20: for each block, the length in the declare-length payload, the length *)
(* field of the select-region payload and, once the block read has returned, *)
(* the sum of the expected-length bytes of its read commands are equal, and  *)
(* are 459, 4011 and 171 for the files 1, 2 and 4; every select-region       *)
(* command comes right after the declare-length command of its own block and *)
(* every read command after the select-region command of its block or after  *)
(* another read of it, so no region is read under a declaration left over    *)
(* from another block.                                                       *)
C20_LengthsAgree ==
    \A i \in 1..Len(sent) :
        /\ IsRegion(sent[i]) =>
              /\ i > 1 /\ IsDeclare(sent[i - 1])
              /\ DeclaredLen(sent[i - 1]) = RegionLen(sent[i])
              /\ RegionLen(sent[i]) = LenOfFile(RegionFile(sent[i]))
              /\ SumLe(i + 1, LastReadAfter(i)) <= RegionLen(sent[i])
              /\ ReadCompleted(i) =>
                    SumLe(i + 1, LastReadAfter(i)) = RegionLen(sent[i])
        /\ IsRead(sent[i]) =>
              i > 1 /\ (IsRegion(sent[i - 1]) \/ IsRead(sent[i - 1]))
        /\ (IsDeclare(sent[i]) /\ i < Len(sent)) => IsRegion(sent[i + 1])

\* the three blocks have been read, by 2, 16 and 1 read commands
C20_Witness ==
    /\ pc = "done" /\ Len(sent) = 26
    /\ DeclaredLen(sent[24]) = 171 /\ RegionLen(sent[25]) = 171 /\ LeOf(sent[26]) = 171
    /\ DeclaredLen(sent[6]) = 4011 /\ RegionLen(sent[7]) = 4011

====
